---- MODULE Spec2Model ----
(***************************************************************************)
(* Model of the specification-driven mock API server (server.js with the   *)
(* linkage feature, and responseGenerator.js).  The contract document and  *)
(* the static responses are loaded once; every request runs the validator  *)
(* middleware and then the dynamic route handler registered for the first  *)
(* matching path template.                                                 *)
(***************************************************************************)
EXTENDS Integers, Sequences, FiniteSets, TLC

VARIABLES
    cfg,              \* the documents chosen at startup (never changes)
    spec,             \* spec.paths flattened: operations in declaration order
    staticResponses,  \* static.json: <<path, METHOD>> -> {status, body}
    dataStore,        \* the module-level Map: reference -> stored payload
    uuidCount,        \* number of references uuidv4() has produced
    pending,          \* handlers suspended in `await jsf.resolve(schema)`
    nreq,             \* number of requests received so far
    last,             \* the most recently completed request and its response
    issued,           \* history: per completed store request, the reference issued and the body submitted
    running           \* the Node process is alive

vars == <<cfg, spec, staticResponses, dataStore, uuidCount, pending, nreq, last, issued,
          running>>

\* Bound: requests received in one run of the server.
MaxRequests == 3

-----------------------------------------------------------------------------
(* JSON values and the JavaScript operations the handler applies to them.  *)

Undefined == [kind |-> "undefined"]
Str(s) == [kind |-> "string", val |-> s]
Num(s) == [kind |-> "number", val |-> s]
Bool(s) == [kind |-> "boolean", val |-> s]
Obj(f) == [kind |-> "object", fields |-> f]
EmptyObject == Obj([f \in {} |-> ""])

\* JavaScript truthiness, as used by `if (data)`, `content?.example`,
\* `response.body && referenceField`.
Truthy(v) ==
    CASE v.kind = "object" -> TRUE
      [] v.kind = "string" -> v.val # ""
      [] v.kind = "number" -> v.val # "0"
      [] v.kind = "boolean" -> v.val = "true"
      [] OTHER -> FALSE

\* A write that lands in a copy of the body and is lost.
SetFieldOnCopy(v, k, x) == v

\* response.body[referenceField] = reference : sets the property on an
\* object; on a primitive the assignment has no effect.
SetField(v, k, x) ==
    IF v.kind = "object"
    THEN Obj([f \in (DOMAIN v.fields) \cup {k} |-> IF f = k THEN x ELSE v.fields[f]])
    ELSE v

\* parseInt(status) on the status keys of the contract.
parseInt(s) ==
    CASE s = "200" -> 200
      [] s = "201" -> 201
      [] s = "404" -> 404
      [] s = "500" -> 500

\* method.toUpperCase()
toUpperCase(m) ==
    CASE m = "get" -> "GET"
      [] m = "post" -> "POST"
      [] OTHER -> m

\* uuidv4(): the n-th reference generated by the process.
uuidv4(n) == "uuid-" \o ToString(n)

-----------------------------------------------------------------------------
(* The contract document (openapi.yaml) and static.json chosen at startup. *)

Lit(s) == [lit |-> s]
Par(s) == [param |-> s]

PaymentsPath == <<Lit("payments")>>
PaymentByRefPath == <<Lit("payments"), Par("reference")>>
PaymentSummaryPath == <<Lit("payments"), Lit("summary")>>
AccountPath == <<Lit("accounts"), Par("accountId")>>
AccountLiteralPath == <<Lit("accounts"), Lit("123")>>

\* A response definition: responses[status].content['application/json'].
NoContent == [example |-> Undefined, schema |-> FALSE]
SchemaOnly == [example |-> Undefined, schema |-> TRUE]
WithExample(e, hasSchema) == [example |-> e, schema |-> hasSchema]

PendingExample == Obj([reference |-> "", status |-> "pending"])
AccountExample == Obj([id |-> "123", balance |-> "1000.50"])
SummaryExample == Obj([total |-> "3"])

\* POST /payments, x-mock-store {referenceField: reference}.
PostVariants == {"only201example", "schema200"}
PostResponses(v) ==
    IF v = "only201example"
    THEN [s \in {"201"} |-> WithExample(PendingExample, TRUE)]
    ELSE [s \in {"200", "201"} |->
            IF s = "200" THEN SchemaOnly ELSE WithExample(PendingExample, TRUE)]

\* GET /accounts/{accountId}, a plain operation.
AccountVariants == {"example", "falsyExample", "no200", "schemaOnly"}
AccountResponses(v) ==
    CASE v = "example" ->
            [s \in {"200", "201"} |->
                IF s = "200" THEN WithExample(AccountExample, TRUE) ELSE NoContent]
      [] v = "falsyExample" ->
            [s \in {"200", "201"} |->
                IF s = "200" THEN WithExample(Num("0"), TRUE) ELSE NoContent]
      [] v = "no200" ->
            [s \in {"201", "404"} |->
                IF s = "201" THEN WithExample(AccountExample, FALSE) ELSE NoContent]
      [] v = "schemaOnly" ->
            [s \in {"200", "404"} |-> IF s = "200" THEN SchemaOnly ELSE NoContent]

Operation(path, method, store, referenceField, retrieve, param, security, responses) ==
    [path |-> path, method |-> method,
     store |-> store, referenceField |-> referenceField,
     retrieve |-> retrieve, param |-> param,
     security |-> security, responses |-> responses]

PostPayments(v) ==
    Operation(PaymentsPath, "post", TRUE, "reference", FALSE, "", "BearerAuth",
              PostResponses(v))
GetPaymentByRef ==
    Operation(PaymentByRefPath, "get", FALSE, "", TRUE, "reference", "none",
              [s \in {"200", "404"} |-> IF s = "200" THEN SchemaOnly ELSE NoContent])
\* GET /payments/{reference} carrying x-mock-retrieve and x-mock-store.
GetPaymentByRefAndStore ==
    Operation(PaymentByRefPath, "get", TRUE, "reference", TRUE, "reference", "none",
              [s \in {"200", "404"} |-> IF s = "200" THEN SchemaOnly ELSE NoContent])
\* Which annotations the document puts on GET /payments/{reference}.
ByRefVariants == {"retrieve", "both"}
PaymentByRef(v) == IF v = "both" THEN GetPaymentByRefAndStore ELSE GetPaymentByRef
GetPaymentSummary ==
    Operation(PaymentSummaryPath, "get", FALSE, "", FALSE, "", "none",
              [s \in {"200"} |-> WithExample(SummaryExample, FALSE)])
GetAccount(v) ==
    Operation(AccountPath, "get", FALSE, "", FALSE, "", "ApiKeyAuth",
              AccountResponses(v))

\* Declaration order of the two GET /payments/... templates in the document.
Orders == {"paramFirst", "literalFirst"}

\* Object.entries(spec.paths) x Object.entries(methods), in document order.
SpecOf(c) ==
    IF c.order = "paramFirst"
    THEN <<PostPayments(c.post), PaymentByRef(c.byRef), GetPaymentSummary,
           GetAccount(c.account)>>
    ELSE <<PostPayments(c.post), GetPaymentSummary, PaymentByRef(c.byRef),
           GetAccount(c.account)>>

\* static.json: which (path, METHOD) keys carry an override.
StaticEntry(status, body) == [status |-> status, body |-> body]
AllStatic ==
    [k \in {<<PaymentsPath, "POST">>, <<PaymentByRefPath, "GET">>,
            <<AccountPath, "GET">>, <<AccountLiteralPath, "GET">>} |->
        CASE k = <<PaymentsPath, "POST">> -> StaticEntry(201, Obj([status |-> "accepted"]))
          [] k = <<PaymentByRefPath, "GET">> -> StaticEntry(200, Obj([status |-> "static"]))
          [] k = <<AccountPath, "GET">> -> StaticEntry(404, Obj([error |-> "Account not found"]))
          [] k = <<AccountLiteralPath, "GET">> -> StaticEntry(404, Obj([error |-> "Account not found"]))]
StaticChoices ==
    {{}, {<<PaymentsPath, "POST">>}, {<<PaymentByRefPath, "GET">>},
     {<<AccountPath, "GET">>}, {<<AccountLiteralPath, "GET">>}}
StaticOf(c) == [k \in c.static |-> AllStatic[k]]

\* The documents the server is started with: the baseline documents, or the
\* baseline with one of its parts replaced.
AllConfigs == [order : Orders, post : PostVariants, account : AccountVariants,
               static : StaticChoices, byRef : ByRefVariants]
Baseline == [order |-> "paramFirst", post |-> "only201example", account |-> "example",
             static |-> {}, byRef |-> "retrieve"]
Configs == {c \in AllConfigs :
              Cardinality({d \in {"order", "post", "account", "static", "byRef"} :
                              c[d] # Baseline[d]}) <= 1}

-----------------------------------------------------------------------------
(* Requests.                                                               *)

\* Bodies as express.json() hands them to the handler: always an object
\* (strict mode), {} when the request carries none.
ReqBodies == {Obj([amount |-> "100", currency |-> "USD"]),
              Obj([amount |-> "250", currency |-> "EUR"])}
\* X-Mock-Response: absent, or naming a status.
StatusHeaders == {"", "201"}

\* What the delegated validator is given: the scheme's header present or
\* not, and whether body and parameters satisfy the declared schemas.
Credentials == {<<TRUE, TRUE>>, <<FALSE, TRUE>>, <<TRUE, FALSE>>}

Request(method, path, xMockResponse, body, xApiKey, authorization, valid) ==
    [method |-> method, path |-> path, xMockResponse |-> xMockResponse,
     body |-> body, xApiKey |-> xApiKey, authorization |-> authorization,
     valid |-> valid]

\* References a client may put in the path: a string the store never issues,
\* every reference issued so far and the one issued next.
References == {"summary"} \cup {uuidv4(k) : k \in 1..(uuidCount + 1)}

\* The requests clients send: each matches a declared path and method.
Requests ==
    {Request("POST", <<"payments">>, h, b, FALSE, c[1], c[2]) :
        h \in StatusHeaders, b \in ReqBodies, c \in Credentials}
    \cup {Request("GET", <<"payments", r>>, h, EmptyObject, FALSE, FALSE, v) :
        r \in References, h \in StatusHeaders, v \in BOOLEAN}
    \cup {Request("GET", <<"accounts", "123">>, h, EmptyObject, c[1], FALSE, c[2]) :
        h \in StatusHeaders, c \in Credentials}

-----------------------------------------------------------------------------
(* Routing: app[method](path.replace(/\{([^}]+)\}/g, ':$1'), handler).     *)

\* The Express form of a contract path template: {name} becomes :name.
ExpressPath(path) ==
    [i \in 1..Len(path) |->
        IF "param" \in DOMAIN path[i] THEN [colon |-> path[i].param] ELSE path[i]]

\* An Express layer matches a concrete path segment by segment.
LayerMatches(route, reqPath) ==
    /\ Len(route) = Len(reqPath)
    /\ \A i \in 1..Len(route) :
          \/ "colon" \in DOMAIN route[i]
          \/ ("lit" \in DOMAIN route[i] /\ route[i].lit = reqPath[i])

RouteMatches(op, req) ==
    /\ toUpperCase(op.method) = req.method
    /\ LayerMatches(ExpressPath(op.path), req.path)

\* Express walks the router stack in registration order: the first layer that
\* matches handles the request (0: no route).
Match(routes, req) ==
    IF \E i \in 1..Len(routes) : RouteMatches(routes[i], req)
    THEN CHOOSE i \in 1..Len(routes) :
            /\ RouteMatches(routes[i], req)
            /\ \A j \in 1..(i - 1) : ~RouteMatches(routes[j], req)
    ELSE 0

\* req.params[name] for the matched layer.
ReqParam(op, req, name) ==
    LET route == ExpressPath(op.path)
        at == {i \in 1..Len(route) : route[i] = [colon |-> name]}
    IN IF at = {} THEN Undefined ELSE Str(req.path[CHOOSE i \in at : TRUE])

-----------------------------------------------------------------------------
(* OpenApiValidator.middleware and the validation error handler.           *)

\* Security handlers that accept every request.
SecurityPassesAlways(op, req) == TRUE

\* validateSecurity.handlers: presence of the scheme's header.
SecurityPasses(op, req) ==
    CASE op.security = "ApiKeyAuth" -> req.xApiKey
      [] op.security = "BearerAuth" -> req.authorization
      [] OTHER -> TRUE

\* err.status of the validator's error: 0 when the request passes.
ValidationStatus(op, req) ==
    IF ~SecurityPasses(op, req) THEN 401
    ELSE IF ~req.valid THEN 400
    ELSE 0

-----------------------------------------------------------------------------
(* responseGenerator.js                                                    *)

Response(status, body, from, key) ==
    [status |-> status, body |-> body, from |-> from, key |-> key]

\* const status = requestedStatus in responses ? requestedStatus : '200'
SelectStatus(responses, requestedStatus) ==
    IF requestedStatus \in DOMAIN responses THEN requestedStatus ELSE "200"

\* staticResponses[path]?.[method.toUpperCase()] : keyed by the contract's
\* path template, as passed by the handler.
StaticKey(path, method) == <<path, toUpperCase(method)>>

\* generateResponse up to its return or its `await jsf.resolve(schema)`.
\* `from` tells which object the returned body is: the override's body, the
\* contract's example (both shared with the loaded documents), a fresh
\* object, or the value the synthesizer is still to produce ("schema").
generateResponse(path, method, operation, statics, requestedStatus) ==
    IF StaticKey(path, method) \in DOMAIN statics
    THEN Response(statics[StaticKey(path, method)].status,
                  statics[StaticKey(path, method)].body, "static", "")
    ELSE LET responses == operation.responses
             status == SelectStatus(responses, requestedStatus)
         IN IF status \notin DOMAIN responses
            THEN Response(500, Obj([error |-> "No response defined for status " \o status]),
                          "fresh", status)
            ELSE IF Truthy(responses[status].example)
            THEN Response(parseInt(status), responses[status].example, "example", status)
            ELSE IF responses[status].schema
            THEN Response(parseInt(status), Undefined, "schema", status)
            ELSE Response(parseInt(status), EmptyObject, "fresh", status)

\* Values jsf.resolve(schema) may produce: fresh objects.
SynthValues == {Obj([status |-> "generated"]), Obj([reference |-> "generated", status |-> "generated"])}

-----------------------------------------------------------------------------
(* The dynamic route handler of server.js.                                 *)

\* const requestedStatus = req.headers['x-mock-response'] || '200'
RequestedStatus(req) == IF req.xMockResponse # "" THEN req.xMockResponse ELSE "200"

\* dataStore.get(reference)
dataStoreGet(store, reference) ==
    IF reference.kind = "string" /\ reference.val \in DOMAIN store
    THEN store[reference.val] ELSE Undefined

\* A set that replaces the Map's content by the new entry.
dataStoreSetOnly(store, reference, value) == [r \in {reference} |-> value]

\* A set that makes the key visible before the value is written.
dataStoreSetPartial(store, reference, value) ==
    [r \in (DOMAIN store) \cup {reference} |->
        IF r = reference THEN EmptyObject ELSE store[r]]

\* dataStore.set(reference, value)
dataStoreSet(store, reference, value) ==
    [r \in (DOMAIN store) \cup {reference} |-> IF r = reference THEN value ELSE store[r]]

NotFound == Obj([error |-> "Not found"])

\* A retrieve branch that answers a miss with an empty 200 body.
RetrieveResponseNever404(data) ==
    IF Truthy(data) THEN Response(200, data, "store", "")
    ELSE Response(200, EmptyObject, "fresh", "")

\* The retrieve branch: found -> 200 with the stored data, else 404.
RetrieveResponse(data) ==
    IF Truthy(data) THEN Response(200, data, "store", "")
    ELSE Response(404, NotFound, "fresh", "")

\* A handler that stores the response body instead of the request body.
StoredPayloadResponseBody(req, response) == response.body

\* The value stored under the new reference: the request body.
StoredPayload(req, response) == req.body

\* A handler whose store branch takes an operation carrying both annotations.
RetrieveBranchUnlessStore(op) == op.retrieve /\ ~op.store

\* if (operation['x-mock-retrieve']) : the branch returns, so nothing below
\* it runs for such an operation.
RetrieveBranch(op) == op.retrieve

Completed(n, req, opi, stage, status, body, ref) ==
    [n |-> n, req |-> req, op |-> opi, stage |-> stage, status |-> status,
     body |-> body, ref |-> ref]

\* response.body after line 193, for the reference generated at line 190.
InjectedBody(op, response, reference) ==
    IF op.store /\ Truthy(response.body) /\ op.referenceField # ""
    THEN SetField(response.body, op.referenceField, reference)
    ELSE response.body

\* Lines 187-195: the store side effect.  Writing response.body[referenceField]
\* writes into the object the body is: the example inside `spec` or the body
\* inside `staticResponses`.
StoreEffects(req, opi, response) ==
    LET op == spec[opi]
        reference == uuidv4(uuidCount + 1)
        body == InjectedBody(op, response, reference)
    IN /\ uuidCount' = IF op.store THEN uuidCount + 1 ELSE uuidCount
       /\ dataStore' = IF op.store
                       THEN dataStoreSet(dataStore, reference, StoredPayload(req, response))
                       ELSE dataStore
       /\ issued' = IF op.store
                    THEN Append(issued, [ref |-> reference, body |-> req.body])
                    ELSE issued
       /\ spec' = IF response.from = "example"
                  THEN [spec EXCEPT ![opi].responses[response.key].example = body]
                  ELSE spec
       /\ staticResponses' =
            IF response.from = "static"
            THEN [staticResponses EXCEPT ![StaticKey(op.path, op.method)].body = body]
            ELSE staticResponses

\* Lines 187-198: the store side effect, then logging and res.status().json().
StoreAndRespond(n, req, opi, response) ==
    /\ StoreEffects(req, opi, response)
    /\ last' = Completed(n, req, opi, "resolve", response.status,
                         InjectedBody(spec[opi], response, uuidv4(uuidCount + 1)),
                         IF spec[opi].store THEN uuidv4(uuidCount + 1) ELSE "")

\* The validator rejects the request; the error handler answers it.
Reject(req) ==
    /\ running
    /\ nreq < MaxRequests
    /\ Match(spec, req) # 0
    /\ ValidationStatus(spec[Match(spec, req)], req) # 0
    /\ nreq' = nreq + 1
    /\ last' = Completed(nreq + 1, req, Match(spec, req), "rejected",
                         ValidationStatus(spec[Match(spec, req)], req),
                         Obj([error |-> "validation failed"]), "")
    /\ UNCHANGED <<cfg, spec, staticResponses, dataStore, uuidCount, pending, issued,
                   running>>

\* Lines 164-176: a retrieve-annotated operation answers from the dataStore.
Retrieve(req) ==
    /\ running
    /\ nreq < MaxRequests
    /\ Match(spec, req) # 0
    /\ LET opi == Match(spec, req)
           op == spec[opi]
           response == RetrieveResponse(dataStoreGet(dataStore, ReqParam(op, req, op.param)))
       IN /\ ValidationStatus(op, req) = 0
          /\ RetrieveBranch(op)
          /\ last' = Completed(nreq + 1, req, opi, "retrieve", response.status,
                               response.body, "")
    /\ nreq' = nreq + 1
    /\ UNCHANGED <<cfg, spec, staticResponses, dataStore, uuidCount, pending, issued,
                   running>>

\* Lines 178-198 when generateResponse returns without waiting for the
\* synthesizer: the handler runs to res.json() before any other request.
Resolve(req) ==
    /\ running
    /\ nreq < MaxRequests
    /\ Match(spec, req) # 0
    /\ LET opi == Match(spec, req)
           op == spec[opi]
           response == generateResponse(op.path, op.method, op, staticResponses,
                                        RequestedStatus(req))
       IN /\ ValidationStatus(op, req) = 0
          /\ ~RetrieveBranch(op)
          /\ response.from # "schema"
          /\ StoreAndRespond(nreq + 1, req, opi, response)
    /\ nreq' = nreq + 1
    /\ UNCHANGED <<cfg, pending, running>>

\* Lines 178-185 when generateResponse reaches `await jsf.resolve(schema)`:
\* the handler is suspended and other requests may be served meanwhile.
SynthSuspend(req) ==
    /\ running
    /\ nreq < MaxRequests
    /\ Match(spec, req) # 0
    /\ LET opi == Match(spec, req)
           op == spec[opi]
           response == generateResponse(op.path, op.method, op, staticResponses,
                                        RequestedStatus(req))
       IN /\ ValidationStatus(op, req) = 0
          /\ ~RetrieveBranch(op)
          /\ response.from = "schema"
          /\ pending' = pending \cup {[n |-> nreq + 1, req |-> req, op |-> opi,
                                       status |-> response.status]}
    /\ nreq' = nreq + 1
    /\ UNCHANGED <<cfg, spec, staticResponses, dataStore, uuidCount, last, issued,
                   running>>

\* The synthesizer's promise resolves: lines 510 and 187-198.
SynthResume(p, generated) ==
    /\ running
    /\ p \in pending
    /\ pending' = pending \ {p}
    /\ StoreAndRespond(p.n, p.req, p.op, Response(p.status, generated, "fresh", ""))
    /\ UNCHANGED <<cfg, nreq, running>>

NoRequest == Request("", <<>>, "", Undefined, FALSE, FALSE, FALSE)

Init ==
    /\ cfg \in Configs
    /\ spec = SpecOf(cfg)
    /\ staticResponses = StaticOf(cfg)
    /\ dataStore = [r \in {} |-> Undefined]
    /\ uuidCount = 0
    /\ pending = {}
    /\ nreq = 0
    /\ last = Completed(0, NoRequest, 0, "none", 0, Undefined, "")
    /\ issued = <<>>
    /\ running = TRUE

Next ==
    \/ \E req \in Requests : Reject(req)
    \/ \E req \in Requests : Retrieve(req)
    \/ \E req \in Requests : Resolve(req)
    \/ \E req \in Requests : SynthSuspend(req)
    \/ \E p \in pending, generated \in SynthValues : SynthResume(p, generated)

Spec == Init /\ [][Next]_vars

-----------------------------------------------------------------------------
(* Failing collaborators.  The handler is an async function without a      *)
(* try/catch, registered after the error-handling middleware: when          *)
(* jsf.resolve rejects or logger.info throws, the handler's promise is      *)
(* rejected, nothing calls res, and the rejection is unhandled.  Node       *)
(* either only warns about it or ends the process, depending on its         *)
(* version and flags.                                                       *)

\* The handler ended without calling res.status().json().
Threw(n, req, opi, cause, ref) == Completed(n, req, opi, cause, 0, Undefined, ref)

\* Line 509: jsf.resolve(content.schema) rejects.
SynthThrows(p, exits) ==
    /\ running
    /\ p \in pending
    /\ pending' = pending \ {p}
    /\ last' = Threw(p.n, p.req, p.op, "synthesizer threw", "")
    /\ running' = ~exits
    /\ UNCHANGED <<cfg, spec, staticResponses, dataStore, uuidCount, nreq, issued>>

\* Lines 170 and 173: logger.info throws before res.status().json().
RetrieveLoggerThrows(req, exits) ==
    /\ running
    /\ nreq < MaxRequests
    /\ Match(spec, req) # 0
    /\ LET opi == Match(spec, req)
           op == spec[opi]
       IN /\ ValidationStatus(op, req) = 0
          /\ RetrieveBranch(op)
          /\ last' = Threw(nreq + 1, req, opi, "logger threw", "")
    /\ nreq' = nreq + 1
    /\ running' = ~exits
    /\ UNCHANGED <<cfg, spec, staticResponses, dataStore, uuidCount, pending, issued>>

\* Line 197: logger.info throws after the store side effect.
ResolveLoggerThrows(req, exits) ==
    /\ running
    /\ nreq < MaxRequests
    /\ Match(spec, req) # 0
    /\ LET opi == Match(spec, req)
           op == spec[opi]
           response == generateResponse(op.path, op.method, op, staticResponses,
                                        RequestedStatus(req))
       IN /\ ValidationStatus(op, req) = 0
          /\ ~RetrieveBranch(op)
          /\ response.from # "schema"
          /\ StoreEffects(req, opi, response)
          /\ last' = Threw(nreq + 1, req, opi, "logger threw",
                           IF op.store THEN uuidv4(uuidCount + 1) ELSE "")
    /\ nreq' = nreq + 1
    /\ running' = ~exits
    /\ UNCHANGED <<cfg, pending>>

\* Line 197 after the synthesizer's promise resolved.
SynthResumeLoggerThrows(p, generated, exits) ==
    /\ running
    /\ p \in pending
    /\ pending' = pending \ {p}
    /\ StoreEffects(p.req, p.op, Response(p.status, generated, "fresh", ""))
    /\ last' = Threw(p.n, p.req, p.op, "logger threw",
                     IF spec[p.op].store THEN uuidv4(uuidCount + 1) ELSE "")
    /\ running' = ~exits
    /\ UNCHANGED <<cfg, nreq>>

NextFaults ==
    \/ Next
    \/ \E p \in pending, exits \in BOOLEAN : SynthThrows(p, exits)
    \/ \E req \in Requests, exits \in BOOLEAN : RetrieveLoggerThrows(req, exits)
    \/ \E req \in Requests, exits \in BOOLEAN : ResolveLoggerThrows(req, exits)
    \/ \E p \in pending, generated \in SynthValues, exits \in BOOLEAN :
          SynthResumeLoggerThrows(p, generated, exits)

SpecFaults == Init /\ [][NextFaults]_vars

-----------------------------------------------------------------------------
(* Properties.                                                             *)

\* The completed request passed the validator and was handled by a route.
Accepted(c) == c.op # 0 /\ c.stage # "rejected"

\* The reference a GET /payments/<reference> request names.
RequestedReference(c) == c.req.path[2]

IssuedRefs == {issued[i].ref : i \in 1..Len(issued)}

\* C1: N completed store requests were issued N pairwise distinct
\* references, and a later retrieve request with one of them returns 200
\* and the request body submitted by the store request it was issued to.
C1_StoreThenRetrieve ==
    /\ \A i, j \in 1..Len(issued) : i # j => issued[i].ref # issued[j].ref
    /\ (Accepted(last) /\ spec[last.op].retrieve)
          => \A i \in 1..Len(issued) :
                issued[i].ref = RequestedReference(last)
                   => last.status = 200 /\ last.body = issued[i].body

\* Two different bodies were stored and the first one was retrieved.
C1_Witness ==
    /\ Len(issued) >= 2
    /\ issued[1].body # issued[2].body
    /\ Accepted(last) /\ spec[last.op].retrieve
    /\ RequestedReference(last) = issued[1].ref
    /\ last.body = issued[1].body

\* C2: POST /payments declaring only a 201 example {reference: "", status:
\* "pending"}, no status-override header, valid body: 201, status "pending",
\* and a fresh non-empty reference in place of the placeholder.
C2_Post201Scenario ==
    (/\ Accepted(last)
     /\ last.req.method = "POST" /\ last.req.path = <<"payments">>
     /\ cfg.post = "only201example" /\ cfg.static = {}
     /\ last.req.xMockResponse = "")
       => /\ last.status = 201
          /\ last.body.kind = "object"
          /\ DOMAIN last.body.fields = {"reference", "status"}
          /\ last.body.fields.status = "pending"
          /\ last.body.fields.reference # ""
          /\ last.body.fields.reference = last.ref

\* C3: a retrieve request naming a reference that was never issued yields
\* exactly 404 {error: "Not found"}, whatever status-override header it has.
C3_UnknownReference404 ==
    (/\ Accepted(last) /\ spec[last.op].retrieve
     /\ RequestedReference(last) \notin IssuedRefs)
       => last.status = 404 /\ last.body = Obj([error |-> "Not found"])

\* An unknown reference was requested with a status-override header.
C3_Witness ==
    /\ Accepted(last) /\ spec[last.op].retrieve
    /\ RequestedReference(last) \notin IssuedRefs
    /\ last.req.xMockResponse = "201"
    /\ Len(issued) >= 1
    /\ last.status = 404

\* C4: an operation without retrieveAnnotation that has a static override
\* always returns the override's status and its body as loaded at startup.
C4_StaticOverrideVerbatim ==
    (/\ Accepted(last) /\ ~spec[last.op].retrieve
     /\ <<spec[last.op].path, last.req.method>> \in DOMAIN StaticOf(cfg))
       => /\ last.status = StaticOf(cfg)[<<spec[last.op].path, last.req.method>>].status
          /\ last.body = StaticOf(cfg)[<<spec[last.op].path, last.req.method>>].body

\* The status the handler asks for, as the contract's responses resolve it.
ResolvedStatus(c) ==
    LET responses == SpecOf(cfg)[c.op].responses
        requested == IF c.req.xMockResponse = "" THEN "200" ELSE c.req.xMockResponse
    IN IF requested \in DOMAIN responses THEN requested ELSE "200"

PlainWithoutOverride(c) ==
    /\ Accepted(c)
    /\ ~spec[c.op].retrieve /\ ~spec[c.op].store
    /\ <<spec[c.op].path, c.req.method>> \notin DOMAIN StaticOf(cfg)

\* C5: for a plain operation without override, when the resolved status
\* declares a literal example, the body is that example, whatever its value.
C5_ExampleFirst ==
    (/\ PlainWithoutOverride(last)
     /\ ResolvedStatus(last) \in DOMAIN SpecOf(cfg)[last.op].responses
     /\ SpecOf(cfg)[last.op].responses[ResolvedStatus(last)].example # Undefined)
       => last.body = SpecOf(cfg)[last.op].responses[ResolvedStatus(last)].example

\* The request of the completed exchange lacks the header of the scheme its
\* operation requires, or fails schema validation.
MissingSecurityHeader(c) ==
    \/ spec[c.op].security = "ApiKeyAuth" /\ ~c.req.xApiKey
    \/ spec[c.op].security = "BearerAuth" /\ ~c.req.authorization
FailsValidation(c) == MissingSecurityHeader(c) \/ ~c.req.valid

\* C6: a request that fails the security check or schema validation is
\* answered with the validator's 4xx status, the handler does not run for
\* it, and dataStore and the loaded documents are as before the request.
C6_RejectedNeverResolved ==
    [][(last'.n # last.n /\ FailsValidation(last'))
         => /\ last'.stage = "rejected"
            /\ last'.status \in 400..499
            /\ last'.ref = ""
            /\ dataStore' = dataStore
            /\ uuidCount' = uuidCount
            /\ pending' = pending
            /\ spec' = spec /\ staticResponses' = staticResponses]_vars

\* A request to the store-annotated operation without its security header
\* was rejected while the store already held an entry.
C6_Witness ==
    /\ last.stage = "rejected"
    /\ spec[last.op].store
    /\ ~last.req.authorization
    /\ last.status = 401
    /\ Len(issued) >= 1

\* C7: no step changes or removes an existing dataStore entry.
C7_EntriesNeverChange ==
    [][\A r \in DOMAIN dataStore :
          r \in DOMAIN dataStore' /\ dataStore'[r] = dataStore[r]]_vars

\* Two entries exist and one of them has just been retrieved.
C7_Witness ==
    /\ Cardinality(DOMAIN dataStore) >= 2
    /\ Accepted(last) /\ spec[last.op].retrieve
    /\ last.status = 200
    /\ last.body = dataStore[RequestedReference(last)]

\* Object keys that are status codes enumerate in ascending numeric order.
FirstDeclared(responses) ==
    CHOOSE s \in DOMAIN responses :
        \A t \in DOMAIN responses : parseInt(s) <= parseInt(t)

\* C8: without override and retrieveAnnotation the status is the header's
\* status if declared, else 200 if declared, else the first declared status.
C8_StatusSelection ==
    (/\ Accepted(last) /\ ~spec[last.op].retrieve
     /\ <<spec[last.op].path, last.req.method>> \notin DOMAIN StaticOf(cfg))
       => LET responses == SpecOf(cfg)[last.op].responses
          IN last.status =
               parseInt(IF last.req.xMockResponse \in DOMAIN responses
                        THEN last.req.xMockResponse
                        ELSE IF "200" \in DOMAIN responses THEN "200"
                        ELSE FirstDeclared(responses))

\* C9: a retrieve-annotated operation with a static override answers with
\* the override, whatever the dataStore lookup gives.
C9_StaticBeforeRetrieve ==
    (/\ Accepted(last) /\ spec[last.op].retrieve
     /\ <<spec[last.op].path, last.req.method>> \in DOMAIN StaticOf(cfg))
       => /\ last.status = StaticOf(cfg)[<<spec[last.op].path, last.req.method>>].status
          /\ last.body = StaticOf(cfg)[<<spec[last.op].path, last.req.method>>].body

\* A path template without parameters.
IsLiteral(path) == \A i \in 1..Len(path) : "lit" \in DOMAIN path[i]

\* C10: when a literal and a parameterized template both match the request,
\* the literal template's operation handles it, in either declaration order.
C10_LiteralFirst ==
    (/\ Accepted(last)
     /\ \E i \in 1..Len(spec) : RouteMatches(spec[i], last.req) /\ IsLiteral(spec[i].path))
       => IsLiteral(spec[last.op].path)

\* The completed request ended with a response sent to the client.
Answered(c) == c.stage \in {"rejected", "retrieve", "resolve"}

\* C11: every request gets a response, also when response resolution (the
\* schema synthesizer) fails after validation passed, and the server keeps
\* serving.  (Logger failures are C13's subject.)
C11_ResolutionFailureAnswered ==
    (last.n > 0 /\ last.stage # "logger threw") => (Answered(last) /\ running)

\* C12: no served operation carries both x-mock-store and x-mock-retrieve:
\* a contract with such an operation does not start.
C12_NeverBothAnnotations ==
    Accepted(last) => ~(spec[last.op].store /\ spec[last.op].retrieve)

\* C13: a failure of the logger does not fail the request: the response is
\* still sent, on the retrieve path and on the resolve/store path.
C13_LoggerFailureHarmless ==
    (last.n > 0 /\ last.stage # "synthesizer threw") => Answered(last)

\* C14: the loaded contract (examples included) and the static overrides
\* are in every state what they were right after startup.
C14_DocumentsImmutable ==
    spec = SpecOf(cfg) /\ staticResponses = StaticOf(cfg)

\* C15: a request to a store-annotated operation that ends in the 500 "No
\* response defined for status" outcome leaves dataStore unchanged and is
\* issued no reference.
C15_NoStoreOnResolutionGap ==
    [][(/\ last'.n # last.n
        /\ last'.stage = "resolve"
        /\ spec[last'.op].store
        /\ last'.status = 500)
         => /\ dataStore' = dataStore
            /\ uuidCount' = uuidCount
            /\ last'.ref = ""]_vars

\* C16: when the resolved status has no declared response, the response is
\* exactly 500 {error: "No response defined for status <status>"}, for plain
\* and store-annotated operations alike.
C16_ResolutionGapBody ==
    (/\ Accepted(last) /\ ~spec[last.op].retrieve
     /\ <<spec[last.op].path, last.req.method>> \notin DOMAIN StaticOf(cfg)
     /\ ResolvedStatus(last) \notin DOMAIN SpecOf(cfg)[last.op].responses)
       => /\ last.status = 500
          /\ last.body = Obj([error |-> "No response defined for status "
                                          \o ResolvedStatus(last)])

\* C17: with store requests in flight, a retrieve sees no entry (404) or the
\* complete payload stored under the reference (200), and a retrieve is
\* never left waiting: it completes in the step that receives it.
C17_RetrieveSeesWholeEntry ==
    /\ \A p \in pending : ~spec[p.op].retrieve
    /\ (Accepted(last) /\ spec[last.op].retrieve)
          => \/ last.status = 404 /\ last.body = Obj([error |-> "Not found"])
             \/ /\ last.status = 200
                /\ \E i \in 1..Len(issued) :
                      /\ issued[i].ref = RequestedReference(last)
                      /\ last.body = issued[i].body

\* A stored payload was retrieved while another store request was suspended.
C17_Witness ==
    /\ \E p \in pending : spec[p.op].store
    /\ Accepted(last) /\ spec[last.op].retrieve
    /\ last.status = 200
    /\ last.body \in ReqBodies

\* C18: the reference a store response carries under referenceField is the
\* one under which that request's own body was stored, also when other
\* requests to the operation are suspended at the same time.
C18_OwnReferenceInResponse ==
    (Accepted(last) /\ spec[last.op].store /\ ~spec[last.op].retrieve)
       => /\ last.ref \in DOMAIN dataStore
          /\ dataStore[last.ref] = last.req.body
          /\ last.body.kind = "object"
                => /\ spec[last.op].referenceField \in DOMAIN last.body.fields
                   /\ last.body.fields[spec[last.op].referenceField] = last.ref

\* A suspended store request completed while an earlier one, with another
\* body, was still suspended.
C18_Witness ==
    /\ cfg.post = "schema200"
    /\ Accepted(last) /\ spec[last.op].store
    /\ last.req.xMockResponse = ""
    /\ \E p \in pending :
          /\ p.op = last.op
          /\ p.n < last.n
          /\ p.req.body # last.req.body
    /\ last.body.fields.reference = last.ref

\* C19: a request handled by a retrieve-annotated operation leaves dataStore
\* unchanged and is issued no reference, also when the operation carries
\* x-mock-store too: no request both reads and writes the store.
C19_RetrieveNeverWrites ==
    [][(/\ last'.n # last.n
        /\ last'.op # 0 /\ last'.stage # "rejected"
        /\ spec[last'.op].retrieve)
         => /\ last'.stage = "retrieve"
            /\ dataStore' = dataStore
            /\ uuidCount' = uuidCount
            /\ last'.ref = ""]_vars

\* An operation carrying both annotations answered from a non-empty store.
C19_Witness ==
    /\ Accepted(last)
    /\ spec[last.op].retrieve /\ spec[last.op].store
    /\ last.status = 200
    /\ DOMAIN dataStore # {}
    /\ last.ref = ""

\* The request's concrete path as a static.json key.
ConcretePathKey(c) == <<[i \in 1..Len(c.req.path) |-> Lit(c.req.path[i])], c.req.method>>

\* C20: a static override keyed by a concrete path and method is applied to
\* the request with that path and method, also when a parameterized
\* template serves it.  (Store-annotated operations, whose override body the
\* store branch rewrites, are C4's subject.)
C20_LiteralOverrideApplied ==
    (/\ Accepted(last) /\ ~spec[last.op].store
     /\ ConcretePathKey(last) \in DOMAIN StaticOf(cfg))
       => /\ last.status = StaticOf(cfg)[ConcretePathKey(last)].status
          /\ last.body = StaticOf(cfg)[ConcretePathKey(last)].body

====
